---- MODULE Spec2Model ----
(***************************************************************************)
(* A model of pysignald's Signal client (src/main.py, src/types.py):       *)
(*   - the command protocol client (_send_command and the operations      *)
(*     built on it), one step per blocking socket call;                    *)
(*   - the message stream reader (receive_messages over readlines);        *)
(*   - the chat dispatcher (chat_handler registration and run_chat).       *)
(*                                                                         *)
(* JSON objects are records; a key is present iff it is in the DOMAIN of   *)
(* the record. A line of bytes is a record that says how json.loads       *)
(* treats it ("invalid", "nonobject", "object") and, for the command      *)
(* connection, which correlation IDs occur in it as a substring.           *)
(***************************************************************************)
EXTENDS Integers, Sequences, FiniteSets, TLC

VARIABLES
    \* ---- command protocol client: one _send_command call ----
    op,         \* the operation of Signal that made the current/last call
    cpc,        \* position in _send_command: "idle", "flush", "recv", "done"
    block,      \* the call's block argument
    msg_id,     \* the correlation ID generated by _get_id for the call
    payload,    \* the payload dict (with "id" once injected)
    inbuf,      \* TRUE iff bytes are waiting on the call's fresh connection
    wire,       \* the lines the call has written to its connection
    recvs,      \* number of s.recv calls the call has completed
    response,   \* the chunk the call read with s.recv(4 * 1024), as lines
    outcome,    \* how the call ended: returned None / an envelope, or raised
    \* ---- chat dispatcher and message stream reader ----
    chat_handlers,  \* self._chat_handlers: list of (order, regex, func)
    registered,     \* history: the registrations, in the sequence they were made
    rpc,        \* position in run_chat: "setup" (not started), "read", "yielded",
                \* "match", "send", "raised"
    sub_wire,   \* the lines written to the subscription connection
    closed,     \* TRUE once the daemon has closed the subscription connection
    buf,        \* readlines' buf: the bytes received since the last "\n"
    line,       \* receive_messages' loop variable: the line last read
    message,    \* receive_messages' local variable `message`
    msg,        \* run_chat's loop variable: the Message being dispatched
    idx,        \* position of the handler loop in self._chat_handlers
    stop,       \* run_chat's local `stop` for the reply being sent
    events,     \* history: what the handler loop did for the Message last dispatched
    error       \* the exception that propagated out of run_chat

cmdvars == <<op, cpc, block, msg_id, payload, inbuf, wire, recvs, response, outcome>>

chatvars == <<chat_handlers, registered, rpc, sub_wire, closed, buf, line, message, msg,
              idx, stop, events, error>>

vars == <<cmdvars, chatvars>>

-----------------------------------------------------------------------------
(* Bounds of the model.                                                    *)

\* Longest chunk, in lines, one recv(4096) returns to a call of the host
\* application, and to a reply send of run_chat.
MaxRespLines == 3
MaxReplyLines == 1

-----------------------------------------------------------------------------
(* Values.                                                                 *)

\* self.username
Username == "+15550000001"

\* Correlation IDs _get_id may draw (two of the 36^10 tokens).
Ids == {"k3x9q0a7bz", "m1w8e5r2ty"}

Recipients == {"+15551234567"}
GroupIds == {"G1"}
Texts == {"pong"}

\* key in d
HasKey(d, k) == k \in DOMAIN d

-----------------------------------------------------------------------------
(* The daemon's response chunk: what one s.recv(4 * 1024) returns, already *)
(* split on "\n". raw: the correlation IDs the line contains as a         *)
(* substring; json: what json.loads makes of it. The JSON text of an object*)
(* whose id is i contains i (ids are alphanumeric, never escaped).         *)

Other(id) == CHOOSE j \in Ids : j # id

\* The lines a chunk may hold, for a call whose correlation ID is id.
RespLines(id) ==
    { \* without the ID: an empty or broken fragment, unrelated chatter, the
      \* envelope of another request
      [raw |-> {}, json |-> "invalid"],
      [raw |-> {}, json |-> "object", value |-> [type |-> "version"]],
      [raw |-> {Other(id)}, json |-> "object",
       value |-> [id |-> Other(id), type |-> "success"]],
      \* with the ID as a substring, but not the correlated envelope
      [raw |-> {id}, json |-> "invalid"],
      [raw |-> {id}, json |-> "nonobject"],
      [raw |-> Ids, json |-> "object",
       value |-> [id |-> Other(id), type |-> "success"]],
      \* envelopes whose id is the ID
      [raw |-> {id}, json |-> "object", value |-> [id |-> id]],
      [raw |-> {id}, json |-> "object", value |-> [id |-> id, type |-> "success"]],
      [raw |-> {id}, json |-> "object",
       value |-> [id |-> id, type |-> "unexpected_error"]] }

RECURSIVE SeqsUpTo(_, _)
SeqsUpTo(S, n) ==
    IF n = 0 THEN {<<>>}
    ELSE LET shorter == SeqsUpTo(S, n - 1)
         IN  shorter \cup { Append(s, x) : s \in shorter, x \in S }

Responses(id, n) == SeqsUpTo(RespLines(id), n)

\* Mutant of ScanResponse: the type of the correlated envelope is not looked at.
RECURSIVE ScanResponseIgnoresType(_, _)
ScanResponseIgnoresType(lines, id) ==
    IF lines = <<>> THEN [kind |-> "none"]
    ELSE LET ln == Head(lines) IN
         IF id \notin ln.raw THEN ScanResponseIgnoresType(Tail(lines), id)
         ELSE IF ln.json = "invalid"
              THEN [kind |-> "raise", exc |-> "JSONDecodeError"]
         ELSE IF ln.json # "object"
              THEN [kind |-> "raise", exc |-> "AttributeError"]
         ELSE LET data == ln.value IN
              IF ~HasKey(data, "id") \/ data.id # id
              THEN ScanResponseIgnoresType(Tail(lines), id)
              ELSE [kind |-> "data", data |-> data]

\* Mutant of ScanResponse: the substring test is the only test of the ID.
RECURSIVE ScanResponseSubstringOnly(_, _)
ScanResponseSubstringOnly(lines, id) ==
    IF lines = <<>> THEN [kind |-> "none"]
    ELSE LET ln == Head(lines) IN
         IF id \notin ln.raw THEN ScanResponseSubstringOnly(Tail(lines), id)
         ELSE IF ln.json = "invalid"
              THEN [kind |-> "raise", exc |-> "JSONDecodeError"]
         ELSE IF ln.json # "object"
              THEN [kind |-> "raise", exc |-> "AttributeError"]
         ELSE LET data == ln.value IN
              IF ~HasKey(data, "type")
              THEN [kind |-> "raise", exc |-> "KeyError"]
              ELSE IF data.type = "unexpected_error"
                   THEN [kind |-> "raise", exc |-> "ValueError"]
              ELSE [kind |-> "data", data |-> data]

\* The scan of the response lines in _send_command (block = True).
RECURSIVE ScanResponse(_, _)
ScanResponse(lines, id) ==
    IF lines = <<>> THEN [kind |-> "none"]
    ELSE LET ln == Head(lines) IN
         IF id \notin ln.raw THEN ScanResponse(Tail(lines), id)
         ELSE IF ln.json = "invalid"
              THEN [kind |-> "raise", exc |-> "JSONDecodeError"]
         ELSE IF ln.json # "object"
              THEN [kind |-> "raise", exc |-> "AttributeError"]
         ELSE LET data == ln.value IN
              IF ~HasKey(data, "id") \/ data.id # id
              THEN ScanResponse(Tail(lines), id)
              ELSE IF ~HasKey(data, "type")
                   THEN [kind |-> "raise", exc |-> "KeyError"]
              ELSE IF data.type = "unexpected_error"
                   THEN [kind |-> "raise", exc |-> "ValueError"]
              ELSE [kind |-> "data", data |-> data]

-----------------------------------------------------------------------------
(* The operations built on _send_command: the payload each builds and the  *)
(* block value it passes.                                                  *)

\* def _send_command(self, payload: dict, block: bool = False)
send_command_default_block == FALSE

\* Mutant of register: the command is sent in blocking mode.
register_blocking(voice) ==
    [payload |-> [type |-> "register", username |-> Username, voice |-> voice],
     block |-> TRUE]

register(voice) ==
    [payload |-> [type |-> "register", username |-> Username, voice |-> voice],
     block |-> send_command_default_block]

verify(code) ==
    [payload |-> [type |-> "verify", username |-> Username, code |-> code],
     block |-> send_command_default_block]

get_group_list(b) ==
    [payload |-> [type |-> "list_groups", username |-> Username],
     block |-> b]

leave_group(recipient_group_id, b) ==
    [payload |-> [type |-> "leave_group", username |-> Username,
                  recipientGroupId |-> recipient_group_id],
     block |-> b]

mark_read(recipient, timestamps, b) ==
    [payload |-> [type |-> "mark_read", username |-> Username,
                  recipientAddress |-> recipient, timestamps |-> timestamps],
     block |-> b]

\* def send_message(self, recipient, text, block: bool = True)
send_message_default_block == TRUE

\* def send_group_message(self, recipient_group_id, text, block: bool = False)
send_group_message_default_block == FALSE

send_message(recipient, text, b) ==
    [payload |-> [type |-> "send", username |-> Username,
                  recipientAddress |-> recipient, messageBody |-> text],
     block |-> b]

send_group_message(recipient_group_id, text, b) ==
    [payload |-> [type |-> "send", username |-> Username,
                  recipientGroupId |-> recipient_group_id, messageBody |-> text],
     block |-> b]

-----------------------------------------------------------------------------
(* _send_command, one action per blocking socket call.                     *)

\* s = self._get_socket(); msg_id = self._get_id(); payload["id"] = msg_id
\* and then the call blocks in s.recv(1024).
SendCommandEnter(name, c) ==
    /\ cpc \in {"idle", "done"}
    /\ \E id \in Ids :
          /\ msg_id' = id
          /\ payload' = ("id" :> id) @@ c.payload
    /\ op' = name
    /\ block' = c.block
    /\ cpc' = "flush"
    /\ inbuf' = FALSE
    /\ wire' = <<>>
    /\ recvs' = 0
    /\ response' = <<>>
    /\ outcome' = [kind |-> "pending"]

\* The daemon writes to the fresh connection (its greeting, or chatter).
DaemonGreets ==
    /\ cpc = "flush"
    /\ ~inbuf
    /\ inbuf' = TRUE
    /\ UNCHANGED <<op, cpc, block, msg_id, payload, wire, recvs, response, outcome>>
    /\ UNCHANGED chatvars

\* s.recv(1024) returns and its bytes are dropped; s.send(json.dumps(payload) +
\* "\n"); a non-blocking call returns None here, a blocking one waits in
\* s.recv(4 * 1024).
SendCommandFlushAndWrite ==
    /\ cpc = "flush"
    /\ inbuf
    /\ inbuf' = FALSE
    /\ recvs' = 1
    /\ wire' = <<payload>>
    /\ IF block
       THEN cpc' = "recv" /\ outcome' = outcome
       ELSE cpc' = "done" /\ outcome' = [kind |-> "none"]
    /\ UNCHANGED <<op, block, msg_id, payload, response>>
    /\ UNCHANGED chatvars

\* s.recv(4 * 1024) returns a chunk and the scan of its lines ends the call.
SendCommandRecv(n) ==
    /\ cpc = "recv"
    /\ \E chunk \in Responses(msg_id, n) :
          /\ response' = chunk
          /\ outcome' = ScanResponse(chunk, msg_id)
    /\ recvs' = 2
    /\ cpc' = "done"
    /\ UNCHANGED <<op, block, msg_id, payload, inbuf, wire>>
    /\ UNCHANGED chatvars

-----------------------------------------------------------------------------
(* The host application calling the operations of Signal.                  *)

Register == 
    /\ \E voice \in BOOLEAN : SendCommandEnter("register", register(voice))
    /\ UNCHANGED chatvars

Verify == 
    /\ \E code \in {"123456"} : SendCommandEnter("verify", verify(code))
    /\ UNCHANGED chatvars

GetGroupList == 
    /\ \E b \in BOOLEAN : SendCommandEnter("get_group_list", get_group_list(b))
    /\ UNCHANGED chatvars

LeaveGroup ==
    /\ \E g \in GroupIds, b \in BOOLEAN :
          SendCommandEnter("leave_group", leave_group(g, b))
    /\ UNCHANGED chatvars

MarkRead ==
    /\ \E r \in Recipients, ts \in {<<>>, <<42>>}, b \in BOOLEAN :
          SendCommandEnter("mark_read", mark_read(r, ts, b))
    /\ UNCHANGED chatvars

SendMessage ==
    /\ \E r \in Recipients, t \in Texts, b \in BOOLEAN :
          SendCommandEnter("send_message", send_message(r, t, b))
    /\ UNCHANGED chatvars

SendGroupMessage ==
    /\ \E g \in GroupIds, t \in Texts, b \in BOOLEAN :
          SendCommandEnter("send_group_message", send_group_message(g, t, b))
    /\ UNCHANGED chatvars

-----------------------------------------------------------------------------
(* The subscription stream: what json.loads makes of each inbound line.    *)

\* A message body is a string, modelled as its sequence of characters.
Ping == <<"P">>
Xq == <<"x", "q">>

Sender == "+15551234567"

\* The empty dict {}.
EmptyDict == [k \in {} |-> ""]

\* None, and a value that is not None, where a field may hold either.
None == <<>>
Some(v) == <<v>>

CompleteAttachment ==
    [contentType |-> "image/png", id |-> "a1", size |-> 7, storedFilename |-> "/tmp/a1"]

DirectData(body) ==
    [username |-> Username, source |-> Sender,
     dataMessage |-> [body |-> body, timestamp |-> 42]]

GroupData(body, gid) ==
    [username |-> Username, source |-> Sender, sourceDevice |-> 2,
     timestampISO |-> "2020-01-01T00:00:00Z",
     dataMessage |-> [body |-> body, timestamp |-> 43, group |-> [groupId |-> gid]]]

InboundLines ==
    { [json |-> "invalid"],
      \* not a "message" event, and an envelope without a type
      [json |-> "object", value |-> [type |-> "version"]],
      [json |-> "object", value |-> [data |-> DirectData(Ping)]],
      \* a typing notification (here one that also carries a body)
      [json |-> "object",
       value |-> [type |-> "message",
                  data |-> [source |-> Sender, typing |-> [action |-> "STARTED"],
                            dataMessage |-> [body |-> Ping]]]],
      \* a "message" event without data
      [json |-> "object", value |-> [type |-> "message"]],
      \* a receipt: no dataMessage, so no body
      [json |-> "object",
       value |-> [type |-> "message", data |-> [username |-> Username, source |-> Sender]]],
      \* attachments, complete and with a field missing
      [json |-> "object",
       value |-> [type |-> "message",
                  data |-> [source |-> Sender,
                            dataMessage |-> [body |-> Ping,
                                             attachments |-> <<CompleteAttachment>>]]]],
      [json |-> "object",
       value |-> [type |-> "message",
                  data |-> [source |-> Sender,
                            dataMessage |-> [body |-> Ping,
                                             attachments |-> <<[contentType |-> "image/png",
                                                                id |-> "a2"]>>]]]],
      \* a "message" event whose data itself has the keys of an envelope
      [json |-> "object",
       value |-> [type |-> "message",
                  data |-> [type |-> "message", source |-> Sender,
                            dataMessage |-> [body |-> Xq],
                            data |-> DirectData(Ping)]]] }
    \cup { [json |-> "object", value |-> [type |-> "message", data |-> DirectData(b)]] :
              b \in {<<>>, Ping, Xq} }
    \cup { [json |-> "object", value |-> [type |-> "message", data |-> GroupData(Ping, g)]] :
              g \in {"G1", ""} }

\* [Attachment(content_type=attachment["contentType"], ...) for attachment in ...]
AttachmentKeys == {"contentType", "id", "size", "storedFilename"}

Attachment(attachment) ==
    [content_type |-> attachment.contentType, id |-> attachment.id,
     size |-> attachment.size, stored_filename |-> attachment.storedFilename]

\* Mutant of MakeMessage: an attachment that lacks a field is left out.
MakeMessageDropsIncomplete(data) ==
    LET data_message == IF HasKey(data, "dataMessage") THEN data.dataMessage ELSE EmptyDict
        present == IF HasKey(data_message, "attachments")
                   THEN data_message.attachments ELSE <<>>
        attachments == SelectSeq(present, LAMBDA a : AttachmentKeys \subseteq DOMAIN a)
    IN  [kind |-> "yield",
         value |->
           [username |-> IF HasKey(data, "username") THEN data.username ELSE "",
            source |-> IF HasKey(data, "source") THEN data.source ELSE "",
            text |-> IF HasKey(data_message, "body") THEN data_message.body ELSE <<>>,
            source_device |-> IF HasKey(data, "sourceDevice")
                              THEN Some(data.sourceDevice) ELSE None,
            timestamp |-> IF HasKey(data_message, "timestamp")
                          THEN Some(data_message.timestamp) ELSE None,
            timestamp_iso |-> IF HasKey(data, "timestampISO")
                              THEN Some(data.timestampISO) ELSE None,
            group_info |-> IF HasKey(data_message, "group")
                           THEN data_message.group ELSE EmptyDict,
            attachments |-> [i \in 1..Len(attachments) |->
                                Attachment(attachments[i])]]]

\* The Message receive_messages yields for the dict `data` (message["data"]),
\* or the KeyError of an attachment that lacks a field.
MakeMessage(data) ==
    LET data_message == IF HasKey(data, "dataMessage") THEN data.dataMessage ELSE EmptyDict
        attachments == IF HasKey(data_message, "attachments")
                       THEN data_message.attachments ELSE <<>>
    IN  IF \E i \in 1..Len(attachments) : ~(AttachmentKeys \subseteq DOMAIN attachments[i])
        THEN [kind |-> "raise", exc |-> "KeyError"]
        ELSE [kind |-> "yield",
              value |->
                [username |-> IF HasKey(data, "username") THEN data.username ELSE "",
                 source |-> IF HasKey(data, "source") THEN data.source ELSE "",
                 text |-> IF HasKey(data_message, "body") THEN data_message.body ELSE <<>>,
                 source_device |-> IF HasKey(data, "sourceDevice")
                                   THEN Some(data.sourceDevice) ELSE None,
                 timestamp |-> IF HasKey(data_message, "timestamp")
                               THEN Some(data_message.timestamp) ELSE None,
                 timestamp_iso |-> IF HasKey(data, "timestampISO")
                                   THEN Some(data.timestampISO) ELSE None,
                 group_info |-> IF HasKey(data_message, "group")
                                THEN data_message.group ELSE EmptyDict,
                 attachments |-> [i \in 1..Len(attachments) |->
                                     Attachment(attachments[i])]]]

\* Mutant of IsTyping: typing notifications are not recognised.
IsTypingNever(m) == FALSE

\* 'typing' in message['data']
IsTyping(m) == HasKey(m.data, "typing")

\* The body of the loop of receive_messages for one line, with `message` as the
\* previous iteration left it: the try/except around json.loads, the two
\* filters, the construction of the Message.
\*   kind "skip": continue;  "yield": a Message;  "raise": an exception.
\*   var: the local `message` afterwards.
ReceiveLine(l, previous) ==
    LET parsed == IF l.json = "invalid" THEN previous
                  ELSE [bound |-> TRUE, value |-> l.value]
    IN  IF ~parsed.bound
        THEN [kind |-> "raise", exc |-> "UnboundLocalError", var |-> parsed]
        ELSE LET m == parsed.value IN
             IF ~HasKey(m, "type") \/ m.type # "message"
             THEN [kind |-> "skip", var |-> parsed]
             ELSE IF ~HasKey(m, "data")
                  THEN [kind |-> "raise", exc |-> "KeyError", var |-> parsed]
             ELSE IF IsTyping(m)
                  THEN [kind |-> "skip", var |-> parsed]
             ELSE LET made == MakeMessage(m.data)
                      var == [bound |-> TRUE, value |-> m.data]
                  IN  IF made.kind = "raise"
                      THEN [kind |-> "raise", exc |-> made.exc, var |-> var]
                      ELSE [kind |-> "yield", value |-> made.value, var |-> var]

-----------------------------------------------------------------------------
(* Regular expressions: a literal pattern, matched case-insensitively or   *)
(* not. re.search finds the pattern anywhere in the text.                  *)

Lower(c) == IF c = "P" THEN "p" ELSE IF c = "Q" THEN "q" ELSE IF c = "X" THEN "x" ELSE c

search(regex, text) ==
    \E start \in 0..(Len(text) - Len(regex.pat)) :
        \A k \in 1..Len(regex.pat) :
            IF regex.icase
            THEN Lower(regex.pat[k]) = Lower(text[start + k])
            ELSE regex.pat[k] = text[start + k]

\* if not isinstance(regex, RE_TYPE): regex = re.compile(regex, re.I)
compile(regex) ==
    IF regex.compiled
    THEN [pat |-> regex.pat, icase |-> regex.icase]
    ELSE [pat |-> regex.pat, icase |-> TRUE]

-----------------------------------------------------------------------------
(* chat_handler: registration.                                             *)

\* Most registrations made before run_chat.
MaxHandlers == 2

\* def chat_handler(self, regex, order=100)
chat_handler_default_order == 100

Orders == {10, chat_handler_default_order}
RegexArgs ==
    { [compiled |-> FALSE, pat |-> <<>>],
      [compiled |-> FALSE, pat |-> <<"p">>],
      [compiled |-> TRUE, pat |-> <<"p">>, icase |-> FALSE] }

\* list.sort(key=lambda x: x[0]): stable, ascending in the first component.
\* Insert places h behind every entry whose order is not greater.
\* Mutant of Insert: an unstable sort, h lands before the entries of its order.
RECURSIVE InsertBeforeEqual(_, _)
InsertBeforeEqual(h, sorted) ==
    IF sorted = <<>> THEN <<h>>
    ELSE IF Head(sorted).order < h.order
         THEN <<Head(sorted)>> \o InsertBeforeEqual(h, Tail(sorted))
         ELSE <<h>> \o sorted

RECURSIVE Insert(_, _)
Insert(h, sorted) ==
    IF sorted = <<>> THEN <<h>>
    ELSE IF Head(sorted).order <= h.order
         THEN <<Head(sorted)>> \o Insert(h, Tail(sorted))
         ELSE <<h>> \o sorted

RECURSIVE sort(_)
sort(list) ==
    IF list = <<>> THEN <<>>
    ELSE Insert(list[Len(list)], sort(SubSeq(list, 1, Len(list) - 1)))

\* self._chat_handlers.append((order, regex, func)); self._chat_handlers.sort(...)
Registered(handlers, regex, order, func) ==
    sort(Append(handlers, [order |-> order, regex |-> compile(regex), func |-> func]))

\* One use of the decorator. Every use decorates a function of its own: func
\* is the number of the registration, in the sequence they are made.
ChatHandler ==
    /\ rpc = "setup"
    /\ Len(registered) < MaxHandlers
    /\ \E regex \in RegexArgs, order \in Orders :
          LET func == Len(registered) + 1 IN
          /\ chat_handlers' = Registered(chat_handlers, regex, order, func)
          /\ registered' = Append(registered,
                                  [order |-> order, regex |-> compile(regex), func |-> func])
    /\ UNCHANGED <<rpc, sub_wire, closed, buf, line, message, msg, idx, stop, events, error>>
    /\ UNCHANGED cmdvars

-----------------------------------------------------------------------------
(* run_chat over receive_messages.                                         *)

NoMessage == [text |-> <<>>]
NoLine == [json |-> "none"]
NoError == [exc |-> "none", frm |-> "none"]
Unbound == [bound |-> FALSE]

\* What a handler function may do when it is called.
NoneReply == "None"
HandlerResults ==
    { [kind |-> "raise"], [kind |-> "none"] }
    \cup { [kind |-> "str", reply |-> t] : t \in Texts }
    \cup { [kind |-> "tuple", stop |-> s, reply |-> t] : s \in BOOLEAN, t \in Texts }

\* Mutant of StopOf: every reply stops the handler loop.
StopAlways(result) == TRUE

\* if isinstance(reply, tuple): stop, reply = reply  else: stop = True
StopOf(result) == IF result.kind = "tuple" THEN result.stop ELSE TRUE
ReplyOf(result) == IF result.kind = "none" THEN NoneReply ELSE result.reply

\* Mutant of RouteToGroup: every reply takes the direct path.
RouteNever(m) == FALSE

\* group_id = message.group_info.get("groupId"); if group_id: ... else: ...
RouteToGroup(m) == HasKey(m.group_info, "groupId") /\ m.group_info.groupId # ""

\* run_chat starts: receive_messages connects and subscribes, then blocks in
\* readlines.
RunChat ==
    /\ rpc = "setup"
    /\ cpc \in {"idle", "done"}
    /\ rpc' = "read"
    /\ sub_wire' = <<[type |-> "subscribe", username |-> Username]>>
    /\ UNCHANGED <<chat_handlers, registered, closed, buf, line, message, msg, idx, stop,
                   events, error>>
    /\ UNCHANGED cmdvars

\* The bytes of a line, without its "\n".
SomeBytes == <<"bytes">>

\* What json.loads may make of the joined bytes; an empty line is not valid
\* JSON.
LinesOf(bytes) == IF bytes = <<>> THEN {[json |-> "invalid"]} ELSE InboundLines

\* Mutant of ReadBytes: a reader that runs ahead of the dispatch of the
\* Message yielded last.
ReadBytesAhead ==
    /\ rpc \in {"read", "match", "send"}
    /\ ~closed
    /\ buf = <<>>
    /\ buf' = SomeBytes
    /\ UNCHANGED <<chat_handlers, registered, rpc, sub_wire, closed, line, message, msg, idx,
                   stop, events, error>>
    /\ UNCHANGED cmdvars

\* s.recv(1) returns a byte that is not "\n": buf.append(char).
ReadBytes ==
    /\ rpc = "read"
    /\ ~closed
    /\ buf = <<>>
    /\ buf' = SomeBytes
    /\ UNCHANGED <<chat_handlers, registered, rpc, sub_wire, closed, line, message, msg, idx,
                   stop, events, error>>
    /\ UNCHANGED cmdvars

\* s.recv(1) returns "\n": readlines yields the joined bytes and
\* receive_messages runs its loop body on the line.
ReadLine ==
    /\ rpc = "read"
    /\ ~closed
    /\ buf' = <<>>
    /\ \E l \in LinesOf(buf) :
          LET r == ReceiveLine(l, message) IN
          /\ line' = l
          /\ message' = r.var
          /\ IF r.kind = "skip"
             THEN UNCHANGED <<rpc, msg, error>>
             ELSE IF r.kind = "raise"
                  THEN /\ rpc' = "raised"
                       /\ error' = [exc |-> r.exc, frm |-> "receive_messages"]
                       /\ UNCHANGED msg
                  ELSE rpc' = "yielded" /\ msg' = r.value /\ UNCHANGED error
    /\ UNCHANGED <<chat_handlers, registered, sub_wire, closed, idx, stop, events>>
    /\ UNCHANGED cmdvars

\* Mutant of ConnectionReset: bytes buffered when the connection closes are
\* yielded as a last line.
ConnectionResetYieldsPartial ==
    /\ rpc = "read"
    /\ ~closed
    /\ closed' = TRUE
    /\ IF buf = <<>>
       THEN /\ rpc' = "raised"
            /\ error' = [exc |-> "ConnectionResetError", frm |-> "readlines"]
            /\ UNCHANGED <<buf, line, message, msg>>
       ELSE \E l \in LinesOf(buf) :
               LET r == ReceiveLine(l, message) IN
               /\ buf' = <<>>
               /\ line' = l
               /\ message' = r.var
               /\ IF r.kind = "yield"
                  THEN rpc' = "yielded" /\ msg' = r.value /\ UNCHANGED error
                  ELSE /\ rpc' = "raised"
                       /\ error' = [exc |-> "ConnectionResetError", frm |-> "readlines"]
                       /\ UNCHANGED msg
    /\ UNCHANGED <<chat_handlers, registered, sub_wire, idx, stop, events>>
    /\ UNCHANGED cmdvars

\* The daemon closes the connection and s.recv(1) returns no byte: readlines
\* raises ConnectionResetError, whatever buf holds.
ConnectionReset ==
    /\ rpc = "read"
    /\ ~closed
    /\ closed' = TRUE
    /\ rpc' = "raised"
    /\ error' = [exc |-> "ConnectionResetError", frm |-> "readlines"]
    /\ UNCHANGED <<chat_handlers, registered, sub_wire, buf, line, message, msg, idx, stop,
                   events>>
    /\ UNCHANGED cmdvars

\* Mutant of NoText: no Message counts as one without text.
NoTextNever(m) == FALSE

\* not message.text
NoText(m) == m.text = <<>>

\* The Message just yielded: if not message.text: continue, else the handler
\* loop starts.
RunChatMessage ==
    /\ rpc = "yielded"
    /\ IF NoText(msg)
       THEN rpc' = "read" /\ msg' = NoMessage /\ UNCHANGED <<idx, events>>
       ELSE rpc' = "match" /\ idx' = 1 /\ events' = <<>> /\ UNCHANGED msg
    /\ UNCHANGED <<chat_handlers, registered, sub_wire, closed, buf, line, message, stop,
                   error>>
    /\ UNCHANGED cmdvars

\* The handler loop has ended (exhausted, or left by break): run_chat is back
\* in receive_messages, which reads the next line.
NextMessage ==
    /\ rpc' = "read"
    /\ msg' = NoMessage
    /\ idx' = 0
    /\ stop' = FALSE

\* The next position of the handler loop.
NextHandler ==
    /\ rpc' = "match"
    /\ idx' = idx + 1
    /\ UNCHANGED <<msg, stop>>

\* if not match: continue
NoMatch(h) ==
    /\ events' = Append(events, [ev |-> "nomatch", i |-> idx, func |-> h.func])
    /\ NextHandler
    /\ UNCHANGED error
    /\ UNCHANGED cmdvars

\* Mutant of HandlerRaised: the exception ends the processing of the message.
HandlerRaisedBreak(h) ==
    /\ events' = Append(events, [ev |-> "raise", i |-> idx, func |-> h.func])
    /\ NextMessage
    /\ UNCHANGED error
    /\ UNCHANGED cmdvars

\* Mutant of HandlerRaised: the exception is not caught.
HandlerRaisedPropagates(h) ==
    /\ events' = Append(events, [ev |-> "raise", i |-> idx, func |-> h.func])
    /\ rpc' = "raised"
    /\ error' = [exc |-> "Exception", frm |-> "handler"]
    /\ UNCHANGED <<msg, idx, stop>>
    /\ UNCHANGED cmdvars

\* except: continue   (the handler raised)
HandlerRaised(h) ==
    /\ events' = Append(events, [ev |-> "raise", i |-> idx, func |-> h.func])
    /\ NextHandler
    /\ UNCHANGED error
    /\ UNCHANGED cmdvars

\* Mutant of HandlerReturned: a handler that returns None sends no reply.
HandlerReturnedNoneUnsent(h, result) ==
    LET via == IF RouteToGroup(msg) THEN "send_group_message" ELSE "send_message"
        to == IF RouteToGroup(msg) THEN msg.group_info.groupId ELSE msg.source
    IN  /\ events' = Append(events,
               [ev |-> "send", i |-> idx, func |-> h.func, result |-> result,
                via |-> via, to |-> to])
        /\ UNCHANGED error
        /\ IF result.kind = "none"
           THEN NextMessage /\ UNCHANGED cmdvars
           ELSE /\ stop' = StopOf(result)
                /\ rpc' = "send"
                /\ UNCHANGED <<msg, idx>>
                /\ IF RouteToGroup(msg)
                   THEN SendCommandEnter(via,
                            send_group_message(to, ReplyOf(result),
                                               send_group_message_default_block))
                   ELSE SendCommandEnter(via,
                            send_message(to, ReplyOf(result), send_message_default_block))

\* The handler returned: stop and reply are unpacked and the reply is routed,
\* up to the send entering _send_command.
HandlerReturned(h, result) ==
    /\ stop' = StopOf(result)
    /\ rpc' = "send"
    /\ UNCHANGED <<msg, idx, error>>
    /\ IF RouteToGroup(msg)
       THEN /\ SendCommandEnter("send_group_message",
                   send_group_message(msg.group_info.groupId, ReplyOf(result),
                                      send_group_message_default_block))
            /\ events' = Append(events,
                   [ev |-> "send", i |-> idx, func |-> h.func, result |-> result,
                    via |-> "send_group_message", to |-> msg.group_info.groupId])
       ELSE /\ SendCommandEnter("send_message",
                   send_message(msg.source, ReplyOf(result), send_message_default_block))
            /\ events' = Append(events,
                   [ev |-> "send", i |-> idx, func |-> h.func, result |-> result,
                    via |-> "send_message", to |-> msg.source])

\* One iteration of `for _, regex, func in self._chat_handlers`.
EvaluateHandler ==
    /\ rpc = "match"
    /\ IF idx > Len(chat_handlers)
       THEN NextMessage /\ UNCHANGED <<events, error>> /\ UNCHANGED cmdvars
       ELSE LET h == chat_handlers[idx] IN
            IF ~search(h.regex, msg.text)
            THEN NoMatch(h)
            ELSE \E result \in HandlerResults :
                    IF result.kind = "raise"
                    THEN HandlerRaised(h)
                    ELSE HandlerReturned(h, result)
    /\ UNCHANGED <<chat_handlers, registered, sub_wire, closed, buf, line, message>>

\* Mutant of ReplySent: an exception of the send is dropped like a handler's.
ReplySentSwallows ==
    /\ rpc = "send"
    /\ cpc = "done"
    /\ IF stop THEN NextMessage ELSE NextHandler
    /\ UNCHANGED error
    /\ op' = "none"
    /\ cpc' = "idle"
    /\ block' = FALSE
    /\ msg_id' = ""
    /\ payload' = [type |-> ""]
    /\ wire' = <<>>
    /\ recvs' = 0
    /\ response' = <<>>
    /\ outcome' = [kind |-> "pending"]
    /\ UNCHANGED inbuf
    /\ UNCHANGED <<chat_handlers, registered, sub_wire, closed, buf, line, message, events>>

\* _send_command has ended and control is back in run_chat: an exception of
\* the send propagates; otherwise `if stop: break`.
ReplySent ==
    /\ rpc = "send"
    /\ cpc = "done"
    /\ IF outcome.kind = "raise"
       THEN /\ rpc' = "raised"
            /\ error' = [exc |-> outcome.exc, frm |-> "_send_command"]
            /\ UNCHANGED <<msg, idx, stop>>
       ELSE /\ IF stop THEN NextMessage ELSE NextHandler
            /\ UNCHANGED error
    \* the locals of the finished call are gone
    /\ op' = "none"
    /\ cpc' = "idle"
    /\ block' = FALSE
    /\ msg_id' = ""
    /\ payload' = [type |-> ""]
    /\ wire' = <<>>
    /\ recvs' = 0
    /\ response' = <<>>
    /\ outcome' = [kind |-> "pending"]
    /\ UNCHANGED inbuf
    /\ UNCHANGED <<chat_handlers, registered, sub_wire, closed, buf, line, message, events>>

-----------------------------------------------------------------------------
(* Specifications.                                                         *)

Init ==
    /\ op = "none"
    /\ cpc = "idle"
    /\ block = FALSE
    /\ msg_id = ""
    /\ payload = [type |-> ""]
    /\ inbuf = FALSE
    /\ wire = <<>>
    /\ recvs = 0
    /\ response = <<>>
    /\ outcome = [kind |-> "pending"]
    /\ chat_handlers = <<>>
    /\ registered = <<>>
    /\ rpc = "setup"
    /\ sub_wire = <<>>
    /\ closed = FALSE
    /\ buf = <<>>
    /\ line = NoLine
    /\ message = Unbound
    /\ msg = NoMessage
    /\ idx = 0
    /\ stop = FALSE
    /\ events = <<>>
    /\ error = NoError

\* The host application using the command operations.
NextCommand ==
    \/ Register
    \/ Verify
    \/ GetGroupList
    \/ LeaveGroup
    \/ MarkRead
    \/ SendMessage
    \/ SendGroupMessage
    \/ DaemonGreets
    \/ SendCommandFlushAndWrite
    \/ SendCommandRecv(MaxRespLines)

SpecCommand == Init /\ [][NextCommand]_vars

\* The same, with the one guarantee the client's single thread gives: a call
\* blocked in s.recv(1024) goes on once bytes are waiting on its connection.
\* Nothing is assumed of the daemon.
SpecCommandFair == SpecCommand /\ WF_vars(SendCommandFlushAndWrite)

\* The host application registering handlers and then running the chat loop.
Next ==
    \/ ChatHandler
    \/ RunChat
    \/ ReadBytes
    \/ ReadLine
    \/ ConnectionReset
    \/ RunChatMessage
    \/ EvaluateHandler
    \/ ReplySent
    \/ DaemonGreets
    \/ SendCommandFlushAndWrite
    \/ SendCommandRecv(MaxReplyLines)

Spec == Init /\ [][Next]_vars

-----------------------------------------------------------------------------
(* Properties of the command protocol client (specification SpecCommand).  *)

\* Line ln is an envelope whose id is id.
IsEnvelopeFor(ln, id) ==
    ln.json = "object" /\ HasKey(ln.value, "id") /\ ln.value.id = id

\* Line ln does not concern the request id: the ID does not occur in it, or
\* only inside the envelope of another request.
IsUnrelated(ln, id) ==
    \/ id \notin ln.raw
    \/ ln.json = "object" /\ ~IsEnvelopeFor(ln, id)

\* The chunk holds the correlated envelope at position k, behind lines that do
\* not concern the request.
CorrelatedAt(chunk, id, k) ==
    /\ k \in 1..Len(chunk)
    /\ IsEnvelopeFor(chunk[k], id)
    /\ \A j \in 1..(k - 1) : IsUnrelated(chunk[j], id)

\* C4: a call that has ended, whose response read holds the correlated
\* envelope with type "unexpected_error" (behind any lines that do not concern
\* the request, before any lines at all), raised the protocol error
\* (ValueError) if block is true; with block false the call returned None
\* without an error and without reading the response at all.
C4_ErrorOnlyWhenBlocking ==
    cpc = "done" =>
        /\ block =>
              \A k \in 1..Len(response) :
                  ( /\ CorrelatedAt(response, msg_id, k)
                    /\ HasKey(response[k].value, "type")
                    /\ response[k].value.type = "unexpected_error" )
                  => outcome = [kind |-> "raise", exc |-> "ValueError"]
        /\ ~block =>
              /\ outcome = [kind |-> "none"]
              /\ recvs = 1
              /\ response = <<>>

\* C4 witness: a blocking call that raised the protocol error on an envelope
\* found behind another line of the chunk.
C4_Witness ==
    /\ cpc = "done"
    /\ block
    /\ outcome = [kind |-> "raise", exc |-> "ValueError"]
    /\ CorrelatedAt(response, msg_id, 2)
    /\ Len(response) = 3

\* C5, as stated: register and verify send in blocking mode: a call that has
\* ended was a blocking one and has read the response.
C5_RegisterVerifyBlock ==
    (op \in {"register", "verify"} /\ cpc = "done") => (block /\ recvs = 2)

\* C5, amended: register and verify send in non-blocking mode: the call never
\* waits for a response, and it ends by returning None after the flush and
\* the one write, whatever the daemon answers.
C5_RegisterVerifyDoNotBlock ==
    op \in {"register", "verify"} =>
        /\ ~block
        /\ cpc # "recv"
        /\ cpc = "done" =>
              /\ outcome = [kind |-> "none"]
              /\ recvs = 1
              /\ response = <<>>
              /\ wire = <<payload>>

\* C5 witness: a register call that has ended.
C5_Witness == op = "register" /\ cpc = "done" /\ payload.type = "register"

\* C9: an envelope returned by a blocking call carries the correlation ID
\* that was generated for the call and written in its request.
C9_ReturnedIdIsRequestId ==
    (cpc = "done" /\ outcome.kind = "data") =>
        /\ block
        /\ HasKey(outcome.data, "id")
        /\ outcome.data.id = msg_id
        /\ wire = <<payload>>
        /\ payload.id = msg_id

\* C9 witness: an envelope was returned although the chunk first held the
\* envelope of another request in which the ID occurs.
C9_Witness ==
    /\ cpc = "done"
    /\ outcome.kind = "data"
    /\ Len(response) >= 2
    /\ msg_id \in response[1].raw
    /\ response[1].json = "object"
    /\ response[1].value.id # msg_id

\* C13, as stated: a blocking call whose response read holds no line with the
\* correlation ID as its id has returned None, whatever else the read holds.
C13_NoCorrelatedLineReturnsNone ==
    ( /\ cpc = "done"
      /\ block
      /\ \A k \in 1..Len(response) : ~IsEnvelopeFor(response[k], msg_id) )
    => outcome = [kind |-> "none"]

\* C16, as stated: the scan skips every line that is not the correlated
\* envelope, also one that holds the ID as a substring, so a blocking call ends
\* with what the first correlated envelope of the read gives: the protocol
\* error for type "unexpected_error", the envelope itself for any other type.
C16_OtherLinesAreSkipped ==
    (cpc = "done" /\ block) =>
        \A k \in 1..Len(response) :
            ( /\ IsEnvelopeFor(response[k], msg_id)
              /\ HasKey(response[k].value, "type")
              /\ \A j \in 1..(k - 1) : ~IsEnvelopeFor(response[j], msg_id) )
            => outcome = IF response[k].value.type = "unexpected_error"
                         THEN [kind |-> "raise", exc |-> "ValueError"]
                         ELSE [kind |-> "data", data |-> response[k].value]

\* C18, as stated: a call with block false that has its connection goes on to
\* write its one line and return, whether or not the daemon sends anything on
\* the connection.
C18_NonBlockingCallTerminates ==
    (cpc = "flush" /\ ~block) ~> (cpc = "done" /\ wire = <<payload>>)

-----------------------------------------------------------------------------
(* Properties of the chat dispatcher (specification Spec).                 *)

\* The step in which a handler called for the current Message raises.
IsRaiseStep ==
    /\ rpc = "match"
    /\ Len(events') = Len(events) + 1
    /\ events'[Len(events')].ev = "raise"

\* C1, as stated: once a handler has raised for a message, nothing more is
\* done for that message: no later registration is evaluated and no reply is
\* sent, so the raise is the last entry of the message's history.
C1_RaiseEndsMessage ==
    \A k \in 1..Len(events) : events[k].ev = "raise" => k = Len(events)

\* C1, amended: a handler that raises sends no reply of its own, and the
\* handler loop goes on with the next registration against the same Message
\* (no send is started and nothing propagates in that step).
C1_RaiseContinuesWithNextHandler ==
    /\ [][IsRaiseStep =>
            /\ rpc' = "match"
            /\ idx' = idx + 1
            /\ msg' = msg
            /\ error' = error
            /\ UNCHANGED cmdvars]_vars
    /\ [](\A k, l \in 1..Len(events) :
            events[k].ev = "raise" /\ events[l].ev = "send" => events[l].i # events[k].i)

\* C1 witness: for one Message a handler raised and a later one replied.
C1_Witness ==
    \E k, l \in 1..Len(events) :
        k < l /\ events[k].ev = "raise" /\ events[l].ev = "send"

\* C2: an exception raised by a handler never leaves run_chat: the step in
\* which it is raised leaves the loop running with no error, and whenever
\* run_chat has ended with an exception, that exception is not a handler's.
C2_HandlerExceptionSwallowed ==
    /\ [][IsRaiseStep => rpc' # "raised" /\ error' = NoError]_vars
    /\ [](rpc = "raised" => error.frm \in {"readlines", "receive_messages", "_send_command"})

\* C2 witness: after a Message for which a handler raised, the next Message
\* of the stream has been read and yielded to run_chat.
C2_Witness ==
    /\ rpc = "yielded"
    /\ msg.text # <<>>
    /\ \E k \in 1..Len(events) : events[k].ev = "raise"

\* C3: the registration list holds every registration exactly once, in
\* ascending order, registrations of equal order in the sequence they were
\* made (func numbers the registrations); and the k-th handler run_chat
\* evaluates for a Message is the k-th entry of the list.
C3_StableOrder ==
    /\ Len(chat_handlers) = Len(registered)
    /\ \A r \in 1..Len(registered) :
          Cardinality({k \in 1..Len(chat_handlers) : chat_handlers[k] = registered[r]}) = 1
    /\ \A i, j \in 1..Len(chat_handlers) :
          i < j => \/ chat_handlers[i].order < chat_handlers[j].order
                   \/ /\ chat_handlers[i].order = chat_handlers[j].order
                      /\ chat_handlers[i].func < chat_handlers[j].func
    /\ \A k \in 1..Len(events) :
          /\ events[k].i = k
          /\ k <= Len(chat_handlers)
          /\ events[k].func = chat_handlers[k].func

\* C3 witness: two registrations of equal order, both evaluated for a Message,
\* the earlier registration first.
C3_Witness ==
    /\ Len(registered) = 2
    /\ registered[1].order = registered[2].order
    /\ Len(events) = 2
    /\ events[1].func = 1


\* C6, as stated: a line that does not parse as JSON produces no Message and
\* does not end the stream: no Message is yielded for such a line and
\* receive_messages raises nothing on it.
C6_InvalidLineIsSkipped ==
    /\ rpc = "yielded" => line.json # "invalid"
    /\ (rpc = "raised" /\ error.frm = "receive_messages") => line.json # "invalid"

\* The Message in dispatch comes from a group: its group_info holds a groupId
\* (a non-empty one: an empty string names no group).
HasGroupId(m) == HasKey(m.group_info, "groupId") /\ m.group_info.groupId # ""

\* C7: while a reply is being sent, the send is a group send to the groupId of
\* the Message when its group_info holds one, and a direct send to
\* message.source when it holds none; never the other path. The same holds of
\* every reply already sent for the Message.
C7_ReplyRouting ==
    /\ rpc = "send" =>
          /\ payload.type = "send"
          /\ IF HasGroupId(msg)
             THEN /\ op = "send_group_message"
                  /\ HasKey(payload, "recipientGroupId")
                  /\ payload.recipientGroupId = msg.group_info.groupId
                  /\ ~HasKey(payload, "recipientAddress")
             ELSE /\ op = "send_message"
                  /\ HasKey(payload, "recipientAddress")
                  /\ payload.recipientAddress = msg.source
                  /\ ~HasKey(payload, "recipientGroupId")
    /\ rpc \in {"match", "send"} =>
          \A k \in 1..Len(events) :
              events[k].ev = "send" =>
                  IF HasGroupId(msg)
                  THEN /\ events[k].via = "send_group_message"
                       /\ events[k].to = msg.group_info.groupId
                  ELSE /\ events[k].via = "send_message"
                       /\ events[k].to = msg.source

\* C7 witness: the reply to a Message of group G1 is on its way by the group
\* path, written with the group's ID.
C7_Witness ==
    /\ rpc = "send"
    /\ cpc = "done"
    /\ op = "send_group_message"
    /\ msg.group_info.groupId = "G1"
    /\ wire = <<payload>>
    /\ payload.recipientGroupId = "G1"

\* What the handler of the reply being sent returned.
LastResult == events[Len(events)].result

\* C8: when the send of a reply has returned, a bare string (or a pair with
\* stop true) ends the handler loop for the Message, a pair with stop false
\* moves the loop to the next registration against the same Message; the
\* reply on its way is the one the handler returned; and every reply but the
\* last sent for a Message came from a handler that returned stop false.
C8_StopSemantics ==
    /\ [][(rpc = "send" /\ cpc = "done" /\ outcome.kind # "raise") =>
            IF LastResult.kind = "tuple" /\ ~LastResult.stop
            THEN rpc' = "match" /\ idx' = idx + 1 /\ msg' = msg
            ELSE rpc' = "read" /\ msg' = NoMessage]_vars
    /\ [](rpc = "send" =>
            /\ events # <<>>
            /\ events[Len(events)].ev = "send"
            /\ events[Len(events)].i = idx
            /\ LastResult.kind \in {"str", "tuple"} => payload.messageBody = LastResult.reply)
    /\ [](\A k \in 1..(Len(events) - 1) :
            events[k].ev = "send" =>
                events[k].result.kind = "tuple" /\ ~events[k].result.stop)

\* C8 witness: two handlers have replied to one Message, the second after the
\* first returned stop false, and the second reply stops the loop.
C8_Witness ==
    /\ rpc = "send"
    /\ Len(events) = 2
    /\ events[1].ev = "send"
    /\ events[2].ev = "send"
    /\ events[2].result.kind = "str"

\* The envelope is one receive_messages filters out: its type is not
\* "message", or its data holds a typing key.
Filtered(l) ==
    /\ l.json = "object"
    /\ \/ ~HasKey(l.value, "type")
       \/ l.value.type # "message"
       \/ HasKey(l.value, "data") /\ HasKey(l.value.data, "typing")

\* C10: no Message is yielded for a filtered envelope, and the step that reads
\* one leaves run_chat waiting for the next line: no handler is evaluated, no
\* send is started, nothing is raised.
C10_FilteredEnvelopes ==
    /\ [](rpc = "yielded" => ~Filtered(line))
    /\ [][(rpc = "read" /\ Filtered(line') /\ error'.frm # "readlines") =>
            /\ rpc' = "read"
            /\ UNCHANGED <<msg, idx, stop, events, error>>
            /\ UNCHANGED cmdvars]_vars

\* C10 witness: a typing notification that carries a body has been read and
\* run_chat is waiting for the next line.
C10_Witness ==
    /\ rpc = "read"
    /\ Filtered(line)
    /\ HasKey(line.value, "data")
    /\ HasKey(line.value.data, "typing")
    /\ HasKey(line.value.data, "dataMessage")

\* The line is a "message" envelope that passes the filters of receive_messages
\* and carries no text: its body is absent or the empty string.
CarriesNoText(l) ==
    /\ l.json = "object"
    /\ HasKey(l.value, "type") /\ l.value.type = "message"
    /\ HasKey(l.value, "data") /\ ~HasKey(l.value.data, "typing")
    /\ \/ ~HasKey(l.value.data, "dataMessage")
       \/ ~HasKey(l.value.data.dataMessage, "body")
       \/ l.value.data.dataMessage.body = <<>>

\* C11: a Message whose text is empty never reaches the handler loop: while a
\* registration is evaluated or a reply is sent, the Message in dispatch has
\* text; and once the Message of a line without text has been yielded,
\* run_chat is back reading with no send started, whatever is registered.
C11_EmptyTextSkipped ==
    /\ rpc \in {"match", "send"} => msg.text # <<>>
    /\ (CarriesNoText(line) /\ rpc \notin {"yielded", "raised"}) =>
          rpc = "read" /\ cpc = "idle" /\ msg = NoMessage

\* C11 witness: a Message without a body was yielded and skipped although a
\* registered pattern matches the empty string.
C11_Witness ==
    /\ rpc = "read"
    /\ CarriesNoText(line)
    /\ ~HasKey(line.value.data, "dataMessage")
    /\ \E k \in 1..Len(chat_handlers) : search(chat_handlers[k].regex, <<>>)

\* C12, as stated: the Message yielded for a surviving "message" envelope
\* copies every field that is present and gives every absent field its
\* default: text the empty string, source_device 0, timestamp and
\* timestamp_iso none, group_info and attachments empty.
C12_AbsentFieldsTakeDefaults ==
    (rpc = "yielded" /\ line.json = "object") =>
        LET data == line.value.data
            data_message == IF HasKey(data, "dataMessage")
                            THEN data.dataMessage ELSE EmptyDict
        IN  /\ msg.username = IF HasKey(data, "username") THEN data.username ELSE ""
            /\ msg.source = IF HasKey(data, "source") THEN data.source ELSE ""
            /\ msg.text = IF HasKey(data_message, "body") THEN data_message.body ELSE <<>>
            /\ msg.source_device = IF HasKey(data, "sourceDevice")
                                   THEN Some(data.sourceDevice) ELSE Some(0)
            /\ msg.timestamp = IF HasKey(data_message, "timestamp")
                               THEN Some(data_message.timestamp) ELSE None
            /\ msg.timestamp_iso = IF HasKey(data, "timestampISO")
                                   THEN Some(data.timestampISO) ELSE None
            /\ msg.group_info = IF HasKey(data_message, "group")
                                THEN data_message.group ELSE EmptyDict
            /\ HasKey(data_message, "attachments") \/ msg.attachments = <<>>

\* The attachments of the "message" envelope on line l, which passes the
\* filters of receive_messages.
AttachmentsOf(l) ==
    IF /\ HasKey(l.value.data, "dataMessage")
       /\ HasKey(l.value.data.dataMessage, "attachments")
    THEN l.value.data.dataMessage.attachments
    ELSE <<>>

\* Line l is a "message" envelope that passes the filters and has an
\* attachment that lacks one of the four fields.
IncompleteAttachment(l) ==
    /\ l.json = "object"
    /\ HasKey(l.value, "type") /\ l.value.type = "message"
    /\ HasKey(l.value, "data") /\ ~HasKey(l.value.data, "typing")
    /\ \E i \in 1..Len(AttachmentsOf(l)) :
          \E f \in AttachmentKeys : ~HasKey(AttachmentsOf(l)[i], f)

\* C14: once a line with an incomplete attachment has been read, run_chat has
\* ended with the KeyError that receive_messages raised and no Message was
\* yielded for the line; and a Message that is in dispatch holds every
\* attachment of its line, each with the four fields of the line.
C14_IncompleteAttachmentRaises ==
    /\ IncompleteAttachment(line) =>
          /\ rpc = "raised"
          /\ error = [exc |-> "KeyError", frm |-> "receive_messages"]
          /\ msg = NoMessage
    /\ (rpc \in {"yielded", "match", "send"} /\ line.json = "object") =>
          /\ Len(msg.attachments) = Len(AttachmentsOf(line))
          /\ \A i \in 1..Len(msg.attachments) :
                /\ msg.attachments[i].content_type = AttachmentsOf(line)[i].contentType
                /\ msg.attachments[i].id = AttachmentsOf(line)[i].id
                /\ msg.attachments[i].size = AttachmentsOf(line)[i].size
                /\ msg.attachments[i].stored_filename = AttachmentsOf(line)[i].storedFilename

\* C14 witness: run_chat has ended with the KeyError of a line whose
\* attachment has contentType and id but neither size nor storedFilename.
C14_Witness ==
    /\ rpc = "raised"
    /\ error.exc = "KeyError"
    /\ IncompleteAttachment(line)
    /\ HasKey(AttachmentsOf(line)[1], "id")
    /\ ~HasKey(AttachmentsOf(line)[1], "size")

\* C15: once the daemon has closed the subscription connection, run_chat has
\* ended with the ConnectionResetError of readlines and stays ended: no
\* Message is in dispatch (so none was made of the bytes buffered at the
\* close), no command is under way, and the one subscribe of the start is all
\* that was ever written to a subscription connection (no reconnect).
C15_ConnectionResetPropagates ==
    /\ closed =>
          /\ rpc = "raised"
          /\ error = [exc |-> "ConnectionResetError", frm |-> "readlines"]
          /\ msg = NoMessage
          /\ cpc = "idle"
    /\ (rpc = "raised" /\ error.frm = "readlines") => closed
    /\ Len(sub_wire) <= 1

\* C15 witness: the connection was closed after a Message had been replied to,
\* with the bytes of an unfinished line in buf.
C15_Witness ==
    /\ closed
    /\ buf # <<>>
    /\ rpc = "raised"
    /\ \E k \in 1..Len(events) : events[k].ev = "send"

\* A Message has been yielded and its dispatch has not ended.
InDispatch == rpc \in {"yielded", "match", "send"}

\* C17: while a Message is in dispatch (its handlers are evaluated, a reply to
\* it is being sent or the response of the send is awaited), no byte of a later
\* line has been read from the subscription connection; a command is under way
\* only as the reply send of the Message in dispatch; and the Message in
\* dispatch is the one made of the line read last, so Messages are dispatched
\* one at a time in the order of their lines.
C17_ReadAndDispatchSequential ==
    /\ InDispatch => buf = <<>> /\ ~closed
    /\ cpc # "idle" => rpc = "send" /\ buf = <<>>
    /\ (InDispatch /\ line.json = "object") => msg = MakeMessage(line.value.data).value
    /\ buf # <<>> => msg = NoMessage

\* C17 witness: the first bytes of the next line are read after a blocking
\* direct reply to the previous Message has been sent and answered.
C17_Witness ==
    /\ rpc = "read"
    /\ buf # <<>>
    /\ cpc = "idle"
    /\ line.json = "object"
    /\ \E k \in 1..Len(events) : events[k].ev = "send" /\ events[k].via = "send_message"

\* C19: a direct reply is sent blocking, and when its response read holds the
\* correlated "unexpected_error" envelope the send raises the protocol error;
\* an error raised by a reply send ends run_chat with that error in the very
\* step in which the send returns, and run_chat stays ended, so no later
\* Message is dispatched. A group reply is sent non-blocking: it never reads
\* a response and never raises, so run_chat never ends on a group reply.
C19_SendErrorPropagates ==
    /\ [][(rpc = "send" /\ cpc = "done" /\ outcome.kind = "raise") =>
            /\ rpc' = "raised"
            /\ error' = [exc |-> outcome.exc, frm |-> "_send_command"]
            /\ UNCHANGED <<msg, events>>]_vars
    /\ [][rpc = "raised" => UNCHANGED vars]_vars
    /\ [](rpc = "send" /\ op = "send_message" =>
            /\ block
            /\ \A k \in 1..Len(response) :
                  ( /\ cpc = "done"
                    /\ CorrelatedAt(response, msg_id, k)
                    /\ HasKey(response[k].value, "type")
                    /\ response[k].value.type = "unexpected_error" )
                  => outcome = [kind |-> "raise", exc |-> "ValueError"])
    /\ [](rpc = "send" /\ op = "send_group_message" =>
            /\ ~block
            /\ cpc # "recv"
            /\ response = <<>>
            /\ outcome.kind \in {"pending", "none"})
    /\ [](rpc = "raised" /\ error.frm = "_send_command" =>
            /\ events # <<>>
            /\ events[Len(events)].ev = "send"
            /\ events[Len(events)].via = "send_message")

\* C19 witness: run_chat has ended with the protocol error of a direct reply.
C19_Witness ==
    /\ rpc = "raised"
    /\ error = [exc |-> "ValueError", frm |-> "_send_command"]
    /\ events[Len(events)].via = "send_message"
    /\ msg.text # <<>>

\* The step in which a handler called for the current Message returns.
IsReturnStep ==
    /\ Len(events') = Len(events) + 1
    /\ events'[Len(events')].ev = "send"

\* The payload names exactly one destination.
OneDestination(p) == HasKey(p, "recipientAddress") # HasKey(p, "recipientGroupId")

\* C20: for the Message in dispatch the registrations are evaluated one after
\* the other, none twice; the step in which a handler returns starts exactly
\* one send (one _send_command call, which writes one line naming one
\* destination and carrying the handler's reply, the null reply included),
\* and no other step starts a send; after a reply that stops (a bare value,
\* None included, or a pair with stop true) nothing more is evaluated or sent
\* for the Message, so the sends are as many as the handlers that returned up
\* to and including the first that stops.
C20_OneSendPerReturn ==
    /\ [][IsReturnStep =>
            /\ rpc = "match" /\ cpc = "idle"
            /\ rpc' = "send" /\ cpc' = "flush" /\ wire' = <<>>
            /\ OneDestination(payload')
            /\ payload'.messageBody = ReplyOf(events'[Len(events')].result)
            /\ stop' = StopOf(events'[Len(events')].result)]_vars
    /\ [][(cpc # "flush" /\ cpc' = "flush") => IsReturnStep]_vars
    /\ [][wire' # wire =>
            \/ wire = <<>> /\ wire' = <<payload>> /\ rpc = "send"
            \/ wire' = <<>>]_vars
    /\ [](rpc = "send" /\ cpc \in {"recv", "done"} => wire = <<payload>>)
    /\ [](rpc = "match" => Len(events) = idx - 1)
    /\ [](rpc = "send" => Len(events) = idx)
    /\ [](\A k \in 1..Len(events) :
            /\ events[k].i = k
            /\ (events[k].ev = "send" /\ StopOf(events[k].result)) => k = Len(events)
            /\ (events[k].ev = "send" /\ events[k].result.kind = "none") =>
                  StopOf(events[k].result))

\* C20 witness: for one Message a handler returned a pair with stop false and
\* the next one returned None; the null reply is a further send for the
\* Message, its one line is written, and it stops the loop.
C20_Witness ==
    /\ rpc = "send"
    /\ cpc = "done"
    /\ stop
    /\ payload.messageBody = NoneReply
    /\ Len(events) >= 2
    /\ events[Len(events)].result.kind = "none"
    /\ events[Len(events) - 1].ev = "send"

====
